---- MODULE Spec2Model ----
(***************************************************************************)
(* Model of the handwritten-note OCR worker (src/src/index.ts):            *)
(* the response sanitizer and todo formatter of processHandwrittenNote,    *)
(* the POST /api/process-note handler, the MCP tool                        *)
(* process_handwritten_note and the deferred cleanup of temporary images.  *)
(*                                                                         *)
(* Text is modelled as a sequence of one-character strings; "BOX" and      *)
(* "CHK" stand for the single glyphs U+2610 and U+2611.  Numbers are       *)
(* fixed-point, in units of 1/Scale.                                       *)
(***************************************************************************)
EXTENDS Integers, Sequences, FiniteSets, TLC

VARIABLES
    stage,      \* position inside processHandwrittenNote after JSON.parse
    parsed,     \* extractedData, the parsed reply object
    note,       \* result, the record built at index.ts:276
    outcome     \* what processHandwrittenNote returns or throws

VARIABLES
    apiKey,     \* env.GOOGLE_GEMINI_API_KEY is set
    r2,         \* ids whose object temp/<id> is in the R2 bucket
    timers,     \* ids whose setTimeout cleanup is pending
    nextId,     \* number of crypto.randomUUID() values drawn so far
    pc,         \* where the handler in progress is suspended
    cur,        \* the request in progress (or last answered) and its locals
    resp        \* the response of the last answered request

noteVars == <<stage, parsed, note, outcome>>
reqVars == <<apiKey, r2, timers, nextId, pc, cur, resp>>
vars == <<noteVars, reqVars>>

\* ------------------------------------------------------------------ bounds

\* longest content string enumerated for the formatter
MaxLen == 4
\* most keys present in one parsed reply object
MaxKeys == 2
\* most POST /api/process-note requests in one run
MaxRequests == 2

\* ------------------------------------------------------------------ text

Scale == 10

Box == "BOX"
Chk == "CHK"
NL == "\n"

\* String.prototype.trim strips these from both ends
IsSpace(c) == c \in {" ", "\t", "\r", NL}

LowerOf ==
    [A |-> "a", B |-> "b", C |-> "c", D |-> "d", E |-> "e", F |-> "f",
     G |-> "g", H |-> "h", I |-> "i", J |-> "j", K |-> "k", L |-> "l",
     M |-> "m", N |-> "n", O |-> "o", P |-> "p", Q |-> "q", R |-> "r",
     S |-> "s", T |-> "t", U |-> "u", V |-> "v", W |-> "w", X |-> "x",
     Y |-> "y", Z |-> "z"]

LowerChar(c) == IF c \in DOMAIN LowerOf THEN LowerOf[c] ELSE c

toLowerCase(s) == [i \in 1..Len(s) |-> LowerChar(s[i])]

startsWith(s, p) == Len(s) >= Len(p) /\ SubSeq(s, 1, Len(p)) = p

RECURSIVE TrimStart(_)
TrimStart(s) ==
    IF s # <<>> /\ IsSpace(Head(s)) THEN TrimStart(Tail(s)) ELSE s

RECURSIVE TrimEnd(_)
TrimEnd(s) ==
    IF s # <<>> /\ IsSpace(s[Len(s)]) THEN TrimEnd(SubSeq(s, 1, Len(s) - 1)) ELSE s

trim(s) == TrimEnd(TrimStart(s))

\* s.split(sep) for a one-character separator: always at least one piece
RECURSIVE SplitFrom(_, _, _)
SplitFrom(s, sep, piece) ==
    IF s = <<>> THEN <<piece>>
    ELSE IF Head(s) = sep THEN <<piece>> \o SplitFrom(Tail(s), sep, <<>>)
    ELSE SplitFrom(Tail(s), sep, Append(piece, Head(s)))

split(s, sep) == SplitFrom(s, sep, <<>>)

\* pieces.join(sep)
RECURSIVE join(_, _)
join(pieces, sep) ==
    IF pieces = <<>> THEN <<>>
    ELSE IF Len(pieces) = 1 THEN pieces[1]
    ELSE pieces[1] \o <<sep>> \o join(Tail(pieces), sep)

\* words.includes(w) on an error message kept as a sequence of words
includes(msg, w) == \E i \in 1..Len(msg) : msg[i] = w

\* ------------------------------------------------------------ JSON values

\* a value is its type tag t and, by type, its text v, number n, truth value
\* b or elements a; the fields its type does not use hold a fixed filler
Undefined == [t |-> "undefined", v |-> <<>>, n |-> 0, b |-> FALSE, a |-> <<>>]
Null == [t |-> "null", v |-> <<>>, n |-> 0, b |-> FALSE, a |-> <<>>]
Str(s) == [t |-> "str", v |-> s, n |-> 0, b |-> FALSE, a |-> <<>>]
Num(n) == [t |-> "num", v |-> <<>>, n |-> n, b |-> FALSE, a |-> <<>>]
Bool(b) == [t |-> "bool", v |-> <<>>, n |-> 0, b |-> b, a |-> <<>>]
Arr(a) == [t |-> "arr", v |-> <<>>, n |-> 0, b |-> FALSE, a |-> a]
Obj == [t |-> "obj", v |-> <<>>, n |-> 0, b |-> FALSE, a |-> <<>>]

\* ToBoolean: the operand test of `||`
Truthy(x) ==
    /\ x.t \notin {"undefined", "null"}
    /\ ~(x.t = "bool" /\ x.b = FALSE)
    /\ ~(x.t = "num" /\ x.n = 0)
    /\ ~(x.t = "str" /\ x.v = <<>>)

OrElse(a, b) == IF Truthy(a) THEN a ELSE b

Fields == {"title", "content", "category", "tags", "dates", "contacts",
           "confidence", "raw_text"}

UntitledNote == <<"U","n","t","i","t","l","e","d"," ","N","o","t","e">>
NoteCategory == <<"n","o","t","e">>
Todo == <<"t","o","d","o">>
Task == <<"t","a","s","k">>
DefaultConfidence == 8

Max(a, b) == IF a >= b THEN a ELSE b
Min(a, b) == IF a <= b THEN a ELSE b

\* ------------------------------------------------- Response Sanitizer

EmptyObject == [f \in Fields |-> Undefined]

SanitizeTitle(o) == OrElse(o.title, Str(UntitledNote))

SanitizeContent(o) == OrElse(o.content, Str(<<>>))

SanitizeCategory(o) == OrElse(o.category, Str(NoteCategory))

SanitizeList(x) == IF x.t = "arr" THEN x ELSE Arr(<<>>)

\* SanitizeConfidence clamping from above only
SanitizeConfidence_NoFloor(o) ==
    IF o.confidence.t = "num"
    THEN Num(Min(Scale, o.confidence.n))
    ELSE Num(DefaultConfidence)

SanitizeConfidence(o) ==
    IF o.confidence.t = "num"
    THEN Num(Max(0, Min(Scale, o.confidence.n)))
    ELSE Num(DefaultConfidence)

SanitizeRawText(o) == OrElse(o.raw_text, OrElse(o.content, Str(<<>>)))

Sanitize(o) ==
    [title |-> SanitizeTitle(o),
     content |-> SanitizeContent(o),
     category |-> SanitizeCategory(o),
     tags |-> SanitizeList(o.tags),
     dates |-> SanitizeList(o.dates),
     contacts |-> SanitizeList(o.contacts),
     confidence |-> SanitizeConfidence(o),
     raw_text |-> SanitizeRawText(o)]

\* ------------------------------------------ Category-Conditional Formatter

\* IsTodoCategory comparing the category as written, without toLowerCase
IsTodoCategory_CaseSensitive(category) == category = Todo \/ category = Task

IsTodoCategory(category) ==
    toLowerCase(category) = Todo \/ toLowerCase(category) = Task

\* FormatLine without the test for an unchecked box already present
FormatLine_NoBoxTest(line) ==
    LET trimmedLine == trim(line)
    IN  IF trimmedLine # <<>> /\ ~startsWith(trimmedLine, <<Chk>>)
        THEN <<Box, " ">> \o trimmedLine
        ELSE line

FormatLine(line) ==
    LET trimmedLine == trim(line)
    IN  IF /\ trimmedLine # <<>>
           /\ ~startsWith(trimmedLine, <<Box>>)
           /\ ~startsWith(trimmedLine, <<Chk>>)
        THEN <<Box, " ">> \o trimmedLine
        ELSE line

FormatContent(content) ==
    LET pieces == split(content, NL)
    IN  join([i \in 1..Len(pieces) |-> FormatLine(pieces[i])], NL)

\* the formatter on a type-correct note
Format(n) ==
    IF IsTodoCategory(n.category.v)
    THEN [n EXCEPT !.content = Str(FormatContent(n.content.v))]
    ELSE n

Returned(n) == [ok |-> TRUE, note |-> n, error |-> <<>>]
Thrown(msg) == [ok |-> FALSE, note |-> EmptyObject, error |-> msg]
NoOutcome == [ok |-> FALSE, note |-> EmptyObject, error |-> <<"pending">>]

\* lines 288-301 on whatever record line 276 built: a member call on a value
\* that has no such method throws a TypeError
FormatAndReturn(n) ==
    IF n.category.t # "str"
    THEN Thrown(<<"result.category.toLowerCase", "is", "not", "a", "function">>)
    ELSE IF ~IsTodoCategory(n.category.v)
    THEN Returned(n)
    ELSE IF n.content.t # "str"
    THEN Thrown(<<"result.content.split", "is", "not", "a", "function">>)
    ELSE Returned(Format(n))

\* ---------------------------------------------------------------- inputs

Alphabet == {" ", "a", NL, Box, Chk}

Texts == UNION {[1..n -> Alphabet] : n \in 0..MaxLen}

Categories ==
    {Todo, <<"T","a","s","k">>, <<"T","o","d","o">>, <<"T","A","S","K">>,
     <<"t","o","d","o","s">>, NoteCategory}

\* type-correct ExtractedNote values handed to the formatter
ExtractedNotes ==
    {[title |-> Str(<<"x">>), content |-> Str(c), category |-> Str(k),
      tags |-> Arr(<<>>), dates |-> Arr(<<>>), contacts |-> Arr(<<>>),
      confidence |-> Num(DefaultConfidence), raw_text |-> Str(c)] :
        c \in Texts, k \in Categories}

\* values a reply's field can hold, one or more of every JSON type
JsonValues ==
    {Null, Bool(FALSE), Bool(TRUE), Num(0), Num(5), Num(23), Num(-50),
     Str(<<>>), Str(<<"a">>), Str(Todo), Str(<<"T","A","S","K">>),
     Str(<<" ","a",NL,Box,"a">>), Arr(<<>>), Arr(<<Str(<<"a">>)>>), Obj}

KeySets == {S \in SUBSET Fields : Cardinality(S) <= MaxKeys}

ObjectOf(S, f) == [k \in Fields |-> IF k \in S THEN f[k] ELSE Undefined]

\* ------------------------------------------------------ request inputs
\* A data URL or MIME type is a sequence of tokens; the separators the code
\* splits on (":", ";", ",") are tokens of their own.

TenMiB == 10 * 1024 * 1024

\* what String(undefined) gives where a string is expected
UndefinedText == <<"undefined">>

\* pieces[i] of a JavaScript array (0-based), undefined past the end
At(pieces, i) == IF i + 1 <= Len(pieces) THEN pieces[i + 1] ELSE UndefinedText

\* base64 payloads, each one token, with the number of bytes it decodes to
Payloads == {"b64(3B)", "b64(10MiB)", "b64(10MiB+1B)"}

DecodedLength(p) ==
    CASE p = "b64(3B)" -> 3
      [] p = "b64(10MiB)" -> TenMiB
      [] p = "b64(10MiB+1B)" -> TenMiB + 1

\* btoa of a byte string of n bytes
btoa(n) == CHOOSE p \in Payloads : DecodedLength(p) = n

\* atob: the decoded length, or -1 where it throws InvalidCharacterError
atob(text) ==
    IF text = <<>> THEN 0
    ELSE IF Len(text) = 1 /\ text[1] \in Payloads THEN DecodedLength(text[1])
    ELSE -1

PngType == <<"image/", "png">>
PlainType == <<"text/", "plain">>

DataUrl(type, p) == <<"data", ":">> \o type \o <<";", "base64", ",", p>>

\* imageData.split(',')[1]
PayloadOf(imageData) == At(split(imageData, ","), 1)

\* imageData.split(';')[0].split(':')[1]
MimeOf(imageData) == At(split(At(split(imageData, ";"), 0), ":"), 1)

NoOptions ==
    [category_hints |-> Undefined, extract_dates |-> Undefined,
     extract_contacts |-> Undefined]

OptionValues ==
    {NoOptions,
     [category_hints |-> Arr(<<Str(Todo)>>), extract_dates |-> Bool(FALSE),
      extract_contacts |-> Bool(TRUE)]}

NoFile == [k |-> "absent", size |-> 0, type |-> <<>>]

FormFiles ==
    {NoFile, [k |-> "string", size |-> 0, type |-> <<>>]}
    \cup {[k |-> "file", size |-> n, type |-> t] :
            n \in {3, TenMiB, TenMiB + 1}, t \in {PngType, PlainType}}

FormOptions ==
    {[k |-> "absent", v |-> NoOptions], [k |-> "garbage", v |-> NoOptions]}
    \cup {[k |-> "json", v |-> o] : o \in OptionValues}

ImageStrings ==
    {<<>>,
     <<"data", ":", "image/", "png", ";", "base64", "b64(3B)">>,
     <<"image/", "png", ";", "base64", ",", "b64(3B)">>,
     DataUrl(PngType, "%%%")}
    \cup {DataUrl(t, p) : t \in {PngType, PlainType}, p \in Payloads}

MultipartRequests ==
    {[shape |-> "multipart", bodyOk |-> TRUE, file |-> f, optionsStr |-> s,
      image |-> <<>>, options |-> NoOptions] :
        f \in FormFiles, s \in FormOptions}

JsonRequests ==
    {[shape |-> "json", bodyOk |-> FALSE, file |-> NoFile,
      optionsStr |-> [k |-> "absent", v |-> NoOptions],
      image |-> <<>>, options |-> NoOptions]}
    \cup {[shape |-> "json", bodyOk |-> TRUE, file |-> NoFile,
           optionsStr |-> [k |-> "absent", v |-> NoOptions],
           image |-> i, options |-> o] :
            i \in ImageStrings, o \in OptionValues}

ToolCalls ==
    {[shape |-> "tool", bodyOk |-> TRUE, file |-> NoFile,
      optionsStr |-> [k |-> "absent", v |-> NoOptions],
      image |-> i, options |-> o] :
        i \in ImageStrings, o \in OptionValues}

NoRequest ==
    [shape |-> "none", bodyOk |-> TRUE, file |-> NoFile,
     optionsStr |-> [k |-> "absent", v |-> NoOptions],
     image |-> <<>>, options |-> NoOptions]

\* ------------------------------------------------ the vision model's reply
\* response.text as a sequence of segments: prose without braces, the text
\* of one JSON object, or a {...} span that is not JSON.

Prose == [k |-> "prose", obj |-> EmptyObject]
Json(o) == [k |-> "json", obj |-> o]
Broken == [k |-> "broken", obj |-> EmptyObject]

TodoObject ==
    [EmptyObject EXCEPT !.title = Str(<<"x">>),
                        !.content = Str(<<" ", "a", NL, Chk>>),
                        !.category = Str(<<"T","o","d","o">>)]

ReplyObjects == {EmptyObject, TodoObject, [EmptyObject EXCEPT !.category = Num(5)]}

ReplyTexts ==
    {<<>>, <<Prose>>, <<Broken>>, <<Json(EmptyObject), Prose, Json(EmptyObject)>>}
    \cup {<<Prose, Json(o), Prose>> : o \in ReplyObjects}

QuotaMessage == <<"You", "exceeded", "your", "current", "quota">>

VisionOutcomes ==
    {[k |-> "throw", msg |-> m, text |-> <<>>] :
        m \in {QuotaMessage, <<"fetch", "failed">>}}
    \cup {[k |-> "reply", msg |-> <<>>, text |-> t] : t \in ReplyTexts}

NoVision == [k |-> "none", msg |-> <<>>, text |-> <<>>]

\* outcomes of R2.put: <<>> for success, else the message of the error thrown
PutOutcomes == {<<>>, <<"storage", "quota", "exceeded">>, <<"network", "error">>}

\* ------------------------------------------------- processHandwrittenNote

HasOpen(seg) == seg.k \in {"json", "broken"}

\* responseText.match(/\{[\s\S]*\}/): from the first "{" to the last "}"
JsonMatch(text) ==
    LET idx == {i \in 1..Len(text) : HasOpen(text[i])}
    IN  IF idx = {} THEN <<>>
        ELSE SubSeq(text, CHOOSE i \in idx : \A j \in idx : i <= j,
                          CHOOSE i \in idx : \A j \in idx : i >= j)

\* the message of the SyntaxError JSON.parse throws; the engine may quote
\* the offending source text in it
ParseErrorMessage(quoted) ==
    IF quoted
    THEN <<"Unexpected", "token", "quota", "is", "not", "valid", "JSON">>
    ELSE <<"Unexpected", "token", "in", "JSON">>

FailedToParse == <<"Failed", "to", "parse", "AI", "response:">>

\* index.ts:205-235: what the prompt depends on
BuildPrompt(options) ==
    [extractDates |-> options.extract_dates # Bool(FALSE),
     extractContacts |-> options.extract_contacts = Bool(TRUE),
     categoryHints |-> IF options.category_hints.t = "arr"
                          /\ Len(options.category_hints.a) > 0
                       THEN options.category_hints.a ELSE <<>>]

\* index.ts:238-254: the request sent to the vision model
VisionCall(imageData, options) ==
    [made |-> TRUE, mimeType |-> MimeOf(imageData), data |-> PayloadOf(imageData),
     prompt |-> BuildPrompt(options)]

NoCall == [made |-> FALSE, mimeType |-> <<>>, data |-> <<>>, prompt |-> BuildPrompt(NoOptions)]

\* index.ts:256-302 on the vision model's outcome
processHandwrittenNote(vision, quoted) ==
    IF vision.k = "throw" THEN Thrown(vision.msg)
    ELSE IF vision.text = <<>>
    THEN Thrown(<<"Empty", "response", "from", "AI", "service">>)
    ELSE LET jsonMatch == JsonMatch(vision.text)
         IN  IF jsonMatch = <<>>
             THEN Thrown(FailedToParse \o <<"No", "JSON", "found", "in", "response">>)
             ELSE IF Len(jsonMatch) # 1 \/ jsonMatch[1].k # "json"
             THEN Thrown(FailedToParse \o ParseErrorMessage(quoted))
             ELSE FormatAndReturn(Sanitize(jsonMatch[1].obj))

\* -------------------------------------------------------------- responses

NoResponse == [status |-> 0, isError |-> FALSE, hasTime |-> FALSE,
               note |-> EmptyObject, error |-> <<>>]

\* c.json({ error }, status): the early returns of index.ts:56-114
ErrorJson(status, message) ==
    [status |-> status, isError |-> TRUE, hasTime |-> FALSE,
     note |-> EmptyObject, error |-> message]

\* index.ts:155-170: the catch block
Caught(message) ==
    IF includes(message, "quota")
    THEN [status |-> 429, isError |-> TRUE, hasTime |-> TRUE, note |-> EmptyObject,
          error |-> <<"API", "quota", "exceeded.">>]
    ELSE [status |-> 500, isError |-> TRUE, hasTime |-> TRUE, note |-> EmptyObject,
          error |-> <<"Failed", "to", "process", "image">>]

\* index.ts:149-153
SuccessJson(n) ==
    [status |-> 200, isError |-> FALSE, hasTime |-> TRUE, note |-> n, error |-> <<>>]

\* index.ts:357-364, 366-374: the tool result, carried in a JSON-RPC reply
ToolResult(out) ==
    IF out.ok
    THEN [status |-> 200, isError |-> FALSE, hasTime |-> FALSE, note |-> out.note,
          error |-> <<>>]
    ELSE [status |-> 200, isError |-> TRUE, hasTime |-> FALSE, note |-> EmptyObject,
          error |-> <<"Error", "processing", "handwritten", "note:">> \o out.error]

ToolError(message) ==
    [status |-> 200, isError |-> TRUE, hasTime |-> FALSE, note |-> EmptyObject,
     error |-> message]

\* ------------------------------------------------------------- validation

Accepted(imageData, options) ==
    [ok |-> TRUE, thrown |-> FALSE, resp |-> NoResponse,
     imageData |-> imageData, options |-> options]

Refused(response, thrown) ==
    [ok |-> FALSE, thrown |-> thrown, resp |-> response,
     imageData |-> <<>>, options |-> NoOptions]

\* index.ts:64-107
ReadMultipart(r) ==
    IF r.file.k = "absent"
    THEN Refused(ErrorJson(400, <<"No", "image", "file", "provided">>), FALSE)
    ELSE IF r.file.k = "string"
    THEN Refused(ErrorJson(400, <<"Invalid", "file", "format">>), FALSE)
    ELSE IF r.file.size > TenMiB
    THEN Refused(ErrorJson(400, <<"Image", "file", "too", "large.">>), FALSE)
    ELSE IF ~startsWith(r.file.type, <<"image/">>)
    THEN Refused(ErrorJson(400, <<"Invalid", "file", "type.">>), FALSE)
    ELSE IF r.optionsStr.k = "garbage"
    THEN Refused(ErrorJson(400, <<"Invalid", "options", "JSON">>), FALSE)
    ELSE Accepted(DataUrl(r.file.type, btoa(r.file.size)),
                  IF r.optionsStr.k = "json" THEN r.optionsStr.v ELSE NoOptions)

\* index.ts:108-118
ReadJson(r) ==
    IF ~r.bodyOk
    THEN Refused(Caught(<<"Unexpected", "end", "of", "JSON", "input">>), TRUE)
    ELSE IF r.image = <<>>
    THEN Refused(ErrorJson(400, <<"No", "image", "data", "provided">>), FALSE)
    ELSE Accepted(r.image, r.options)

\* index.ts:55-118
ReadRequest(key, r) ==
    IF ~key
    THEN Refused(ErrorJson(500, <<"Google", "Gemini", "API", "key", "not", "configured">>), FALSE)
    ELSE IF r.shape = "multipart" THEN ReadMultipart(r)
    ELSE ReadJson(r)

\* the zod defaults of index.ts:318-319
ToolOptions(o) ==
    [category_hints |-> o.category_hints,
     extract_dates |-> IF o.extract_dates = Undefined THEN Bool(TRUE) ELSE o.extract_dates,
     extract_contacts |-> IF o.extract_contacts = Undefined THEN Bool(FALSE)
                          ELSE o.extract_contacts]

\* index.ts:323-353
ReadToolCall(key, r) ==
    IF ~key
    THEN Refused(ToolError(<<"Error:", "Google", "Gemini", "API", "key", "not", "configured">>), FALSE)
    ELSE IF ~startsWith(r.image, <<"data", ":", "image/">>)
    THEN Refused(ToolError(<<"Error:", "Invalid", "image", "format.">>), FALSE)
    ELSE Accepted(r.image, ToolOptions(r.options))

\* index.ts:321-376, the whole tool callback
ToolCallback(key, r, vision, quoted) ==
    LET read == ReadToolCall(key, r)
    IN  IF read.ok THEN ToolResult(processHandwrittenNote(vision, quoted))
        ELSE read.resp

\* -------------------------------------------------------- request actions

Idle ==
    [req |-> NoRequest, reached |-> "none", imageData |-> <<>>,
     options |-> NoOptions, imageId |-> 0, put |-> <<>>, vision |-> NoVision,
     call |-> NoCall]

\* POST /api/process-note, index.ts:52-118
RestReceive(r) ==
    /\ pc = "idle"
    /\ nextId < MaxRequests
    /\ LET read == ReadRequest(apiKey, r)
       IN  /\ cur' = [Idle EXCEPT !.req = r,
                                  !.reached = IF read.ok THEN "read"
                                              ELSE IF read.thrown THEN "body"
                                              ELSE "refused",
                                  !.imageData = read.imageData,
                                  !.options = read.options]
           /\ resp' = read.resp
           /\ pc' = IF read.ok THEN "rest_store" ELSE "idle"
    /\ UNCHANGED <<apiKey, r2, timers, nextId, noteVars>>

\* index.ts:120-133: the image id, atob, and the awaited R2.put
RestStore(putOutcome) ==
    /\ pc = "rest_store"
    /\ nextId' = nextId + 1
    /\ IF atob(PayloadOf(cur.imageData)) < 0
       THEN /\ cur' = [cur EXCEPT !.reached = "decode", !.imageId = nextId + 1]
            /\ resp' = Caught(<<"Invalid", "character">>)
            /\ pc' = "idle"
            /\ r2' = r2
       ELSE IF putOutcome # <<>>
       THEN /\ cur' = [cur EXCEPT !.reached = "storage", !.imageId = nextId + 1,
                                  !.put = putOutcome]
            /\ resp' = Caught(putOutcome)
            /\ pc' = "idle"
            /\ r2' = r2
       ELSE /\ cur' = [cur EXCEPT !.reached = "stored", !.imageId = nextId + 1]
            /\ resp' = resp
            /\ pc' = "rest_vision"
            /\ r2' = r2 \cup {nextId + 1}
    /\ UNCHANGED <<apiKey, timers, noteVars>>

\* index.ts:135-170: the awaited processHandwrittenNote, the cleanup timer
\* and the response, or the catch block
RestProcess(vision, quoted) ==
    /\ pc = "rest_vision"
    /\ LET out == processHandwrittenNote(vision, quoted)
       IN  /\ cur' = [cur EXCEPT !.reached = "processed", !.vision = vision,
                                 !.call = VisionCall(cur.imageData, cur.options)]
           /\ resp' = IF out.ok THEN SuccessJson(out.note) ELSE Caught(out.error)
           /\ timers' = IF out.ok THEN timers \cup {cur.imageId} ELSE timers
    /\ pc' = "idle"
    /\ UNCHANGED <<apiKey, r2, nextId, noteVars>>

\* index.ts:141-147: the timer callback; a failed delete is only logged
CleanupTimer(id, deleted) ==
    /\ id \in timers
    /\ timers' = timers \ {id}
    /\ r2' = IF deleted THEN r2 \ {id} ELSE r2
    /\ UNCHANGED <<apiKey, nextId, pc, cur, resp, noteVars>>

\* process_handwritten_note, index.ts:321-353
ToolReceive(r) ==
    /\ pc = "idle"
    /\ LET read == ReadToolCall(apiKey, r)
       IN  /\ cur' = [Idle EXCEPT !.req = r,
                                  !.reached = IF read.ok THEN "read" ELSE "refused",
                                  !.imageData = read.imageData,
                                  !.options = read.options]
           /\ resp' = read.resp
           /\ pc' = IF read.ok THEN "tool_vision" ELSE "idle"
    /\ UNCHANGED <<apiKey, r2, timers, nextId, noteVars>>

\* index.ts:355-375
ToolProcess(vision, quoted) ==
    /\ pc = "tool_vision"
    /\ cur' = [cur EXCEPT !.reached = "processed", !.vision = vision,
                          !.call = VisionCall(cur.imageData, cur.options)]
    /\ resp' = ToolResult(processHandwrittenNote(vision, quoted))
    /\ pc' = "idle"
    /\ UNCHANGED <<apiKey, r2, timers, nextId, noteVars>>

NoteIdle ==
    /\ stage = "idle"
    /\ parsed = EmptyObject
    /\ note = EmptyObject
    /\ outcome = NoOutcome

ReqIdle ==
    /\ apiKey = TRUE
    /\ r2 = {}
    /\ timers = {}
    /\ nextId = 0
    /\ pc = "idle"
    /\ cur = Idle
    /\ resp = NoResponse

Init ==
    /\ NoteIdle
    /\ apiKey \in BOOLEAN
    /\ r2 = {}
    /\ timers = {}
    /\ nextId = 0
    /\ pc = "idle"
    /\ cur = Idle
    /\ resp = NoResponse

Next ==
    \/ \E r \in MultipartRequests \cup JsonRequests : RestReceive(r)
    \/ \E p \in PutOutcomes : RestStore(p)
    \/ \E v \in VisionOutcomes, q \in BOOLEAN : RestProcess(v, q)
    \/ \E id \in timers, d \in BOOLEAN : CleanupTimer(id, d)
    \/ \E r \in ToolCalls : ToolReceive(r)
    \/ \E v \in VisionOutcomes, q \in BOOLEAN : ToolProcess(v, q)

Spec == Init /\ [][Next]_vars

\* ---------------------------------------------------------------- actions

\* index.ts:276-286
SanitizeStep ==
    /\ stage = "parsed"
    /\ note' = Sanitize(parsed)
    /\ stage' = "sanitized"
    /\ UNCHANGED <<parsed, outcome, reqVars>>

\* index.ts:288-301
FormatStep ==
    /\ stage = "sanitized"
    /\ outcome' = FormatAndReturn(note)
    /\ stage' = "done"
    /\ UNCHANGED <<parsed, note, reqVars>>

\* the sanitizer and formatter on every parsed reply object
InitSanitize ==
    /\ stage = "parsed"
    /\ \E S \in KeySets : \E f \in [S -> JsonValues] : parsed = ObjectOf(S, f)
    /\ note = EmptyObject
    /\ outcome = NoOutcome
    /\ ReqIdle

NextSanitize == SanitizeStep \/ FormatStep

SpecSanitize == InitSanitize /\ [][NextSanitize]_vars

\* the formatter on every type-correct ExtractedNote
InitFormat ==
    /\ stage = "sanitized"
    /\ parsed = EmptyObject
    /\ note \in ExtractedNotes
    /\ outcome = NoOutcome
    /\ ReqIdle

NextFormat == FormatStep

SpecFormat == InitFormat /\ [][NextFormat]_vars

\* ------------------------------------------------------------ properties

IsString(x) == x.t = "str"
IsArray(x) == x.t = "arr"

TypeCorrect(n) ==
    /\ IsString(n.title) /\ IsString(n.content)
    /\ IsString(n.category) /\ IsString(n.raw_text)
    /\ IsArray(n.tags) /\ IsArray(n.dates) /\ IsArray(n.contacts)
    /\ n.confidence.t = "num" /\ n.confidence.n \in 0..Scale

\* C1: for every parsed reply object, sanitization and formatting return
\* (never throw) a record whose eight fields are all type-correct.
C1_Totality ==
    stage = "done" => outcome.ok /\ TypeCorrect(outcome.note)

Marked(line) ==
    \/ trim(line) = <<>>
    \/ startsWith(trim(line), <<Box>>)
    \/ startsWith(trim(line), <<Chk>>)

LinesIn == split(note.content.v, NL)
LinesOut == split(outcome.note.content.v, NL)

FormatterRan == stage = "done" /\ outcome.ok /\ IsTodoCategory(note.category.v)

\* C9 as stated: under a todo/task category every unmarked non-blank line
\* comes out as "BOX " followed by the original, untrimmed line; blank and
\* marked lines are unchanged; number and order of lines are preserved.
C9_PrefixOriginalLine ==
    FormatterRan =>
        /\ Len(LinesOut) = Len(LinesIn)
        /\ \A i \in 1..Len(LinesIn) :
              LinesOut[i] = IF Marked(LinesIn[i]) THEN LinesIn[i]
                            ELSE <<Box, " ">> \o LinesIn[i]

\* C9 amended: under a todo/task category every unmarked non-blank line
\* comes out as "BOX " followed by the trimmed line; blank and marked lines
\* are unchanged (untrimmed); number and order of lines are preserved.
C9_PrefixTrimmedLine ==
    FormatterRan =>
        /\ Len(LinesOut) = Len(LinesIn)
        /\ \A i \in 1..Len(LinesIn) :
              LinesOut[i] = IF Marked(LinesIn[i]) THEN LinesIn[i]
                            ELSE <<Box, " ">> \o trim(LinesIn[i])

\* a two-line todo note: an indented unmarked line, then a marked one
C9_Witness ==
    /\ FormatterRan
    /\ note.content.v = <<" ", "a", NL, Chk>>
    /\ outcome.note.content.v = <<Box, " ", "a", NL, Chk>>

\* C10: applying the formatter to its own output changes nothing
\* (format(format(x)) = format(x)), for every category and content.
C10_Idempotent ==
    stage = "done" => outcome.ok /\ Format(outcome.note) = outcome.note

\* a todo note the first application did change, with a blank line in it
C10_Witness ==
    /\ FormatterRan
    /\ outcome.note.content.v # note.content.v
    /\ \E i \in 1..Len(LinesIn) : LinesIn[i] = <<" ">>
    /\ Format(outcome.note) = outcome.note

\* ----------------------------------------------- request-level properties

IsRest == cur.req.shape \in {"multipart", "json"}
Answered == pc = "idle" /\ cur.req.shape # "none"

\* the image's decoded byte length, where the request carries an image
CarriesImage ==
    \/ cur.req.shape = "multipart" /\ cur.req.file.k = "file"
    \/ cur.req.shape = "json" /\ cur.req.bodyOk /\ atob(PayloadOf(cur.req.image)) >= 0

DecodedBytes ==
    IF cur.req.shape = "multipart" THEN cur.req.file.size
    ELSE atob(PayloadOf(cur.req.image))

WellFormedImage ==
    \/ /\ cur.req.shape = "multipart" /\ cur.req.file.k = "file"
       /\ cur.req.file.type = PngType /\ cur.req.optionsStr.k # "garbage"
    \/ /\ cur.req.shape = "json" /\ cur.req.bodyOk
       /\ \E p \in Payloads : cur.req.image = DataUrl(PngType, p)

NothingStoredOrSent == cur.imageId \notin r2 /\ cur.imageId = 0 /\ ~cur.call.made

\* C2: in both input shapes an image of exactly 10 MiB is accepted, and a
\* larger one is refused with 400 before anything is stored or sent.
C2_SizeBoundary ==
    (apiKey /\ IsRest /\ CarriesImage) =>
        /\ DecodedBytes > TenMiB =>
              cur.reached = "refused" /\ resp.status = 400 /\ NothingStoredOrSent
        /\ (DecodedBytes = TenMiB /\ WellFormedImage) => cur.reached # "refused"

\* the MIME type the request declares for its image
DeclaresNonImage ==
    \/ /\ cur.req.shape = "multipart" /\ cur.req.file.k = "file"
       /\ ~startsWith(cur.req.file.type, <<"image/">>)
    \/ /\ cur.req.shape \in {"json", "tool"} /\ cur.req.bodyOk
       /\ startsWith(cur.req.image, <<"data", ":">>)
       /\ ~startsWith(MimeOf(cur.req.image), <<"image/">>)

\* C3: on every entry path an input whose declared MIME type does not start
\* with image/ is refused as invalid input and never sent to the vision model.
C3_NonImageRejected ==
    (apiKey /\ DeclaresNonImage) =>
        /\ cur.reached = "refused"
        /\ resp.isError
        /\ IsRest => resp.status = 400
        /\ ~cur.call.made

HasComma(text) == \E i \in 1..Len(text) : text[i] = ","

MalformedDataUrl ==
    /\ cur.req.shape = "json" /\ cur.req.bodyOk /\ cur.req.image # <<>>
    /\ ~HasComma(cur.req.image) \/ ~startsWith(cur.req.image, <<"data", ":">>)

\* C4: a data URL with no comma or no data: scheme is refused with 400 and
\* never reaches the vision-model call.
C4_MalformedUrlRejected ==
    (apiKey /\ MalformedDataUrl) =>
        cur.reached = "refused" /\ resp.status = 400 /\ ~cur.call.made

\* C5: every error response of POST /api/process-note carries
\* processing_time_ms.
C5_ErrorsReportTime ==
    (Answered /\ IsRest /\ resp.isError) => resp.hasTime

\* C6: once a request is answered, every object it stored under temp/<id>
\* has a cleanup scheduled (or is already deleted).
C6_StoredImagesCleanedUp ==
    pc = "idle" => \A id \in r2 : id \in timers

VisionQuotaFailure ==
    /\ cur.reached = "processed"
    /\ cur.vision.k = "throw"
    /\ includes(cur.vision.msg, "quota")

\* C7: 429 is answered exactly when the vision-model call failed with a
\* message containing "quota"; every other failure is answered with 500.
C7_QuotaOnlyFromVision ==
    (Answered /\ IsRest) =>
        /\ resp.status = 429 <=> VisionQuotaFailure
        /\ (resp.isError /\ cur.reached # "refused" /\ ~VisionQuotaFailure)
              => resp.status = 500

Agree(a, b) ==
    \/ a.isError /\ b.isError
    \/ ~a.isError /\ ~b.isError /\ a.note = b.note

\* C8: the MCP tool and the JSON form of POST /api/process-note, given the
\* same image, options and vision-model reply, both succeed with the same
\* note or both report failure.
C8_AdaptersAgree ==
    (Answered /\ cur.req.shape = "json" /\ cur.req.bodyOk) =>
        /\ cur.reached = "processed" =>
              \A q \in BOOLEAN : Agree(resp, ToolCallback(apiKey, cur.req, cur.vision, q))
        /\ cur.reached = "refused" =>
              \A v \in VisionOutcomes, q \in BOOLEAN :
                  ToolCallback(apiKey, cur.req, v, q).isError

\* ------------------------------------------------- formatter triggering

UpperChar(c) ==
    CASE c = "t" -> "T" [] c = "o" -> "O" [] c = "d" -> "D"
      [] c = "a" -> "A" [] c = "s" -> "S" [] c = "k" -> "K"
      [] OTHER -> c

\* s spells the lower-case word w, each letter in either case
SpellsIgnoringCase(s, w) ==
    Len(s) = Len(w) /\ \A i \in 1..Len(w) : s[i] \in {w[i], UpperChar(w[i])}

Triggers(category) ==
    SpellsIgnoringCase(category, Todo) \/ SpellsIgnoringCase(category, Task)

PrefixedLines ==
    /\ Len(LinesOut) = Len(LinesIn)
    /\ \A i \in 1..Len(LinesIn) :
          LinesOut[i] = IF Marked(LinesIn[i]) THEN LinesIn[i]
                        ELSE <<Box, " ">> \o trim(LinesIn[i])

\* C11: marker-prefixing is applied exactly when the category spells "todo"
\* or "task" in any letter case; for every other category the note is
\* returned unchanged in all eight fields.
C11_Triggering ==
    stage = "done" =>
        /\ outcome.ok
        /\ \A f \in Fields \ {"content"} : outcome.note[f] = note[f]
        /\ IF Triggers(note.category.v) THEN PrefixedLines
           ELSE outcome.note.content = note.content

\* an upper-case TASK note whose content gained a marker
C11_Witness ==
    /\ stage = "done" /\ outcome.ok
    /\ note.category.v = <<"T","A","S","K">>
    /\ note.content.v = <<"a">>
    /\ outcome.note.content.v = <<Box, " ", "a">>

\* ------------------------------------------------- sanitizer, per field

Sanitized == stage # "parsed"

Clamped(x) == IF x < 0 THEN 0 ELSE IF x > Scale THEN Scale ELSE x

\* C12: a numeric confidence is clamped into [0,1] (-5 gives 0, 0.5 gives
\* 0.5, 2.3 gives 1); a missing or non-numeric confidence gives 0.8.
C12_ConfidenceClamped ==
    Sanitized =>
        /\ note.confidence.t = "num"
        /\ note.confidence.n \in 0..Scale
        /\ parsed.confidence.t = "num" =>
              note.confidence.n = Clamped(parsed.confidence.n)
        /\ parsed.confidence.t # "num" => note.confidence.n * 10 = 8 * Scale
        /\ parsed.confidence = Num(-50) => note.confidence.n = 0
        /\ parsed.confidence = Num(5) => 2 * note.confidence.n = Scale
        /\ parsed.confidence = Num(23) => note.confidence.n = Scale

\* a reply with confidence -5 beside a non-numeric tags field
C12_Witness ==
    /\ Sanitized
    /\ parsed.confidence = Num(-50)
    /\ parsed.tags = Str(<<"a">>)
    /\ note.confidence = Num(0)

\* C13: title is the input if a non-empty string, else "Untitled Note";
\* content is the input if a string, else ""; category is the input if a
\* string (the empty string included), else "note".
C13_StringCoercion ==
    Sanitized =>
        /\ note.title = IF parsed.title.t = "str" /\ parsed.title.v # <<>>
                        THEN parsed.title ELSE Str(UntitledNote)
        /\ note.content = IF parsed.content.t = "str"
                          THEN parsed.content ELSE Str(<<>>)
        /\ note.category = IF parsed.category.t = "str"
                           THEN parsed.category ELSE Str(NoteCategory)

\* C14: raw_text is the input raw_text whenever that is a string (the empty
\* string included); otherwise it is the resolved content value.
C14_RawTextFallback ==
    Sanitized =>
        note.raw_text = IF parsed.raw_text.t = "str" THEN parsed.raw_text
                        ELSE note.content

====
